---- MODULE Spec2Model ----
(***************************************************************************)
(* Model of architus/staging-comment-action: the build ledger kept in the  *)
(* body of one pull-request comment.  src/src/templates.ts is the codec    *)
(* (render / parse of the Markdown table) and the main module              *)
(* (src/unnamed/part_001) holds updateState, patchComment and the three    *)
(* phase handlers pre, post and failure.                                   *)
(*                                                                         *)
(* JavaScript strings are TLA+ strings; Len, \o and SubSeq act on them one *)
(* character at a time.  Three characters cannot be written inside a TLA+  *)
(* string literal and are written with stand-ins that occur nowhere else   *)
(* in the program's text: the backquote (BT) and the three status emoji.   *)
(* null / undefined is Nil (the empty tuple) and a present value v is the  *)
(* one-element tuple Some(v), so that null and "" stay different.          *)
(***************************************************************************)
EXTENDS Integers, Sequences, FiniteSets, TLC

VARIABLES comments, log, lastCurrent, lastPrior, lastState,
          doc, docTag, docStaging, docDecoded,
          store, flights,
          step

\* The ledger's side: the pull request's comments and what the last call did.
ledgerVars == <<comments, log, lastCurrent, lastPrior, lastState>>
\* The reader's side: one comment body, the tag it is read for, and what
\* isStagingComment and getBuildState returned for it.
docVars == <<doc, docTag, docStaging, docDecoded>>

\* Invocations that overlap: the comments of every pull request, and each
\* invocation's place between its read and its write.
raceVars == <<store, flights>>

\* One workflow step that uses the action: its inputs and event, and what
\* its main hook and its cleanup hook did.
stepVars == <<step>>

vars == <<comments, log, lastCurrent, lastPrior, lastState,
          doc, docTag, docStaging, docDecoded,
          store, flights,
          step>>

----------------------------------------------------------------------------
(* Bounds of the model *)

\* Invocations of the action in one behaviour of Spec.
MaxRuns == 3
\* Distinct commits the reconcile calls of SpecReconcile report on.
NumShas == 3
\* Invocations of the action in one behaviour of SpecTagged.
MaxTaggedRuns == 2
\* Rows of a rendered comment body handed to the reader in SpecDecode.
MaxRows == 3
\* Rows of a hand-edited comment body handed to the reader in SpecDecode.
MaxEditedRows == 2
\* The longest build, in seconds, given as the build-duration input in SpecEntry.
MaxSeconds == 125
\* Invocations of the action in one behaviour of SpecChecked.
MaxCheckedRuns == 3
\* Invocations of the action in one behaviour of SpecShared.
MaxSharedRuns == 3
\* Invocations that may overlap in one behaviour of SpecRace.
MaxFlights == 2

----------------------------------------------------------------------------
(* JavaScript values and string primitives *)

Nil == <<>>
Some(v) == <<v>>

\* The backquote character (U+0060), the inline-code delimiter of Markdown.
BT == "^"

Throw == [threw |-> TRUE, value |-> <<>>]
Return(v) == [threw |-> FALSE, value |-> <<v>>]

\* F applied to the value of e.  TLC evaluates an operator's argument, and a
\* LET definition, again at every use; the element of a singleton is
\* evaluated once.
Bind(e, F(_)) == CHOOSE r \in {F(x) : x \in {e}} : TRUE

Char(s, i) == SubSeq(s, i, i)

IsSpace(c) == c \in {" ", "\n", "\t", "\r"}

\* The least and the greatest of a non-empty set of integers.  TLC tries the
\* candidates of a CHOOSE in increasing order: the least is the first one tried.
MinOf(S) == CHOOSE m \in S : \A o \in S : m <= o
MaxOf(S) == 0 - MinOf({0 - i : i \in S})

\* The positions of s that hold the character c.
Places(s, c) == {i \in 1..Len(s) : Char(s, i) = c}

\* String.prototype.trim
Trim(str) ==
  Bind(str, LAMBDA s :
    Bind({i \in 1..Len(s) : ~IsSpace(Char(s, i))}, LAMBDA solid :
      IF solid = {} THEN "" ELSE SubSeq(s, MinOf(solid), MaxOf(solid))))

\* String.prototype.startsWith
StartsWith(str, prefix) ==
  Bind(prefix, LAMBDA p : Len(p) <= Len(str) /\ SubSeq(str, 1, Len(p)) = p)

\* String.prototype.split with a one-character separator: the pieces between
\* the separators, in order (one more piece than there are separators).
RECURSIVE SplitAt(_, _, _)
SplitAt(s, at, from) ==
  IF at = {} THEN <<SubSeq(s, from, Len(s))>>
  ELSE Bind(MinOf(at), LAMBDA p :
         <<SubSeq(s, from, p - 1)>> \o SplitAt(s, at \ {p}, p + 1))

Split(str, sep) ==
  Bind(str, LAMBDA s : Bind(Places(s, sep), LAMBDA at : SplitAt(s, at, 1)))

\* body.split(/\r?\n/): a carriage return right before a line feed belongs to
\* the separator.
ChopReturn(l) ==
  IF Len(l) > 0 /\ Char(l, Len(l)) = "\r" THEN SubSeq(l, 1, Len(l) - 1) ELSE l

SplitLines(str) ==
  Bind(Split(str, "\n"), LAMBDA raw :
    [k \in 1..Len(raw) |-> IF k < Len(raw) THEN ChopReturn(raw[k]) ELSE raw[k]])

\* Array.prototype.filter
RECURSIVE SelectNonEmpty(_)
SelectNonEmpty(cells) ==
  IF cells = <<>> THEN <<>>
  ELSE IF Len(Head(cells)) > 0
       THEN <<Head(cells)>> \o SelectNonEmpty(Tail(cells))
       ELSE SelectNonEmpty(Tail(cells))

\* Array.prototype.join
RECURSIVE Join(_, _)
Join(parts, sep) ==
  IF parts = <<>> THEN ""
  ELSE IF Len(parts) = 1 THEN parts[1]
  ELSE parts[1] \o sep \o Join(Tail(parts), sep)

\* s.replace(/c/, ""): without the g flag only the first occurrence goes.
ReplaceFirst(str, c) ==
  Bind(str, LAMBDA s :
    Bind(Places(s, c), LAMBDA at :
      IF at = {} THEN s
      ELSE Bind(MinOf(at), LAMBDA p : SubSeq(s, 1, p - 1) \o SubSeq(s, p + 1, Len(s)))))

Digit(d) == SubSeq("0123456789", d + 1, d + 1)

\* Number to decimal text, as a template literal renders a non-negative integer.
RECURSIVE Dec(_)
Dec(n) == IF n < 10 THEN Digit(n) ELSE Dec(n \div 10) \o Digit(n % 10)

----------------------------------------------------------------------------
(* templates.ts: the codec *)

EmojiInProgress == "{yellow}"   \* U+1F7E1
EmojiSuccess == "{green}"       \* U+1F7E2
EmojiFailure == "{red}"         \* U+1F534

StatusInProgress == "In&#8209;progress"
StatusSuccess == "Success"
StatusFailure == "Failure"

COMMENT_TAG(tag) ==
  "<!-- ci/staging-comment-action" \o (IF tag # Nil THEN "-" \o tag[1] ELSE "") \o " -->"

HEADER_ROW == "| | Status | Url | Commit | Started at | Duration | Job |"
SEPARATOR_ROW == "|-|-|-|-|-|-|-|"
NULL == "~"

\* A test of the marker that does not trim the body first.
isStagingCommentUntrimmed(body, tag) == StartsWith(body, COMMENT_TAG(tag))

\* A test of the marker that stops before the tag.
isStagingCommentAnyTag(body, tag) ==
  StartsWith(Trim(body), "<!-- ci/staging-comment-action")

isStagingComment(body, tag) == StartsWith(Trim(body), COMMENT_TAG(tag))

\* BUILD_ENTRY_REGEX = /^\|.*\|\s*$/ : a bar first, a later bar followed by
\* white space only, and no line terminator between the two.
MatchesBuildEntry(str) ==
  Bind(str, LAMBDA line :
    /\ Len(line) >= 2
    /\ Char(line, 1) = "|"
    /\ \E j \in 2..Len(line) :
         /\ Char(line, j) = "|"
         /\ \A k \in 2..(j - 1) : Char(line, k) \notin {"\n", "\r"}
         /\ \A k \in (j + 1)..Len(line) : IsSpace(Char(line, k)))

\* A link parser that gives an empty link for what is no link.
parseLinkLenient(str) ==
  Bind(str, LAMBDA markdown :
    Bind({i \in 2..(Len(markdown) - 2) :
            Char(markdown, i) = "]" /\ Char(markdown, i + 1) = "("}, LAMBDA mid :
      IF /\ Len(markdown) >= 4
         /\ Char(markdown, 1) = "["
         /\ Char(markdown, Len(markdown)) = ")"
         /\ mid # {}
      THEN Bind(MaxOf(mid), LAMBDA m :
             Return(<<SubSeq(markdown, 2, m - 1),
                      SubSeq(markdown, m + 2, Len(markdown) - 1)>>))
      ELSE Return(<<"", "">>)))

\* MARKDOWN_LINK_REGEX = /^\[(.*)\]\((.*)\)$/ : both groups are greedy, so the
\* text runs to the last "](" of the string.  Returns [text, url] or throws.
parseLink(str) ==
  Bind(str, LAMBDA markdown :
    Bind({i \in 2..(Len(markdown) - 2) :
            Char(markdown, i) = "]" /\ Char(markdown, i + 1) = "("}, LAMBDA mid :
      IF /\ Len(markdown) >= 4
         /\ Char(markdown, 1) = "["
         /\ Char(markdown, Len(markdown)) = ")"
         /\ mid # {}
      THEN Bind(MaxOf(mid), LAMBDA m :
             Return(<<SubSeq(markdown, 2, m - 1),
                      SubSeq(markdown, m + 2, Len(markdown) - 1)>>))
      ELSE Throw))

\* The two replace calls of the source, /^(|)/ and /(|)$/, match the empty
\* string and remove nothing; the outer bars go as empty cells in the filter.
RowCells(line) ==
  Bind(Split(Trim(line), "|"), LAMBDA parts :
    SelectNonEmpty([k \in 1..Len(parts) |-> Trim(parts[k])]))

\* A decoding that takes the deploy cell for a link whatever it holds.
EntryOfCellsAlwaysUrl(cells, commit, deploy, run) ==
  IF commit.threw \/ deploy.threw \/ run.threw THEN Throw
  ELSE Return([emoji |-> cells[1],
               status |-> cells[2],
               deployUrl |-> Some(deploy.value[1][2]),
               commitSha |-> ReplaceFirst(commit.value[1][1], BT),
               commitLink |-> commit.value[1][2],
               buildTime |-> cells[5],
               buildDuration |-> IF cells[6] = NULL THEN Nil ELSE Some(cells[6]),
               runLink |-> run.value[1][2]])

\* The entry of seven cells whose three links parsed as commit, deploy, run.
EntryOfCells(cells, commit, deploy, run) ==
  IF commit.threw \/ deploy.threw \/ run.threw THEN Throw
  ELSE Return([emoji |-> cells[1],
               status |-> cells[2],
               deployUrl |-> IF cells[3] = NULL THEN Nil ELSE Some(deploy.value[1][2]),
               commitSha |-> ReplaceFirst(commit.value[1][1], BT),
               commitLink |-> commit.value[1][2],
               buildTime |-> cells[5],
               buildDuration |-> IF cells[6] = NULL THEN Nil ELSE Some(cells[6]),
               runLink |-> run.value[1][2]])

parseBuildEntry(line) ==
  Bind(RowCells(line), LAMBDA cells :
    IF Len(cells) # 7 THEN Throw
    ELSE Bind(<<parseLink(cells[4]),
                IF cells[3] = NULL THEN Return(<<"", "">>) ELSE parseLink(cells[3]),
                parseLink(cells[7])>>, LAMBDA links :
           EntryOfCells(cells, links[1], links[2], links[3])))

\* A selection of rows that keeps the header and separator lines.
EntryLinesWithHeaders(body) ==
  SelectSeq(SplitLines(body), LAMBDA line : MatchesBuildEntry(line))

\* The lines getBuildState hands to parseBuildEntry.
EntryLines(body) ==
  SelectSeq(SplitLines(body),
            LAMBDA line : /\ MatchesBuildEntry(line)
                          /\ ~(StartsWith(line, HEADER_ROW) \/ StartsWith(line, SEPARATOR_ROW)))

RECURSIVE ParseAll(_)
ParseAll(rows) ==
  IF rows = <<>> THEN <<>> ELSE <<parseBuildEntry(Head(rows))>> \o ParseAll(Tail(rows))

\* A decoder that returns an empty state for a body without rows.
getBuildStateOrEmpty(body) ==
  Bind(ParseAll(EntryLines(body)), LAMBDA parsed :
    IF \E k \in 1..Len(parsed) : parsed[k].threw THEN Throw
    ELSE IF Len(parsed) >= 1
         THEN Return([latest |-> parsed[1].value[1],
                      previous |-> [k \in 1..(Len(parsed) - 1) |-> parsed[k + 1].value[1]]])
         ELSE Return([latest |-> Nil, previous |-> <<>>]))

getBuildState(body) ==
  Bind(ParseAll(EntryLines(body)), LAMBDA parsed :
    IF \E k \in 1..Len(parsed) : parsed[k].threw THEN Throw
    ELSE IF Len(parsed) >= 1
         THEN Return([latest |-> parsed[1].value[1],
                      previous |-> [k \in 1..(Len(parsed) - 1) |-> parsed[k + 1].value[1]]])
         ELSE Throw)

link(text, url) == "[" \o text \o "](" \o url \o ")"

entry(buildEntry) ==
  Bind(buildEntry, LAMBDA e :
  Trim("| " \o e.emoji \o " | " \o e.status \o " | "
       \o (IF e.deployUrl # Nil THEN link("link", e.deployUrl[1]) ELSE NULL)
       \o " | " \o link(BT \o e.commitSha \o BT, e.commitLink)
       \o " | " \o e.buildTime \o " | "
       \o (IF e.buildDuration # Nil THEN e.buildDuration[1] ELSE NULL)
       \o " | " \o link("link", e.runLink) \o " |\n"))

previous(previousBuilds) ==
  IF Len(previousBuilds) > 0
  THEN Trim("\n" \o HEADER_ROW \o "\n" \o SEPARATOR_ROW \o "\n"
            \o Join([k \in 1..Len(previousBuilds) |-> entry(previousBuilds[k])], "\n")
            \o "\n      ")
  ELSE "No previous builds found"

details(state) ==
  "\n#### Build details\n\n" \o HEADER_ROW \o "\n" \o SEPARATOR_ROW \o "\n"
  \o entry(state.latest)
  \o "\n\n<details><summary>Previous builds</summary>\n<p>\n\n"
  \o previous(state.previous)
  \o "\n\n</p>\n</details>"

LINK_NOTE ==
  "Semi-permanent links to the built versions of each commit are available in the "
  \o "details below, which are kept for 2 weeks after they are created."

\* A failure comment whose marker comes after its first sentence.
failedMarkerSecond(args) ==
  "\nThere was an error building a deploy preview for the last commit.\n"
  \o COMMENT_TAG(args.tag) \o "\n\n" \o LINK_NOTE \o "\n\n"
  \o details(args.state) \o "\n"

\* args is a CommentArgs record [prId, url, tag, state].
failed(args) ==
  "\n" \o COMMENT_TAG(args.tag)
  \o "\nThere was an error building a deploy preview for the last commit. "
  \o "For more details, check the output of the action run [here]("
  \o args.state.latest.runLink \o ").\n\n" \o LINK_NOTE \o "\n\n"
  \o details(args.state) \o "\n"

successful(args) ==
  Trim("\n  " \o COMMENT_TAG(args.tag)
       \o "\nA deploy preview has been created for this Pull Request (#" \o args.prId
       \o "), which is available at " \o args.url \o ".\n\n" \o LINK_NOTE \o "\n\n"
       \o details(args.state) \o "\n")

building(args) ==
  Trim("\n" \o COMMENT_TAG(args.tag)
       \o "\nA deploy preview is being created for this Pull Request (#" \o args.prId
       \o "), which will be available at " \o args.url \o " once completed.\n\n"
       \o LINK_NOTE \o "\n\n" \o details(args.state) \o "\n")

\* A rendering that does not reduce the seconds.
durationUnreduced(totalSeconds) ==
  Dec(totalSeconds \div 60) \o "m " \o Dec(totalSeconds) \o "s"

duration(totalSeconds) == Dec(totalSeconds \div 60) \o "m " \o Dec(totalSeconds % 60) \o "s"

\* date() formats the build start with luxon as "LLL d" at "h:mm a ZZZZ" in
\* the configured zone.  A build start is a minute of one afternoon here and
\* is rendered in that layout.
date(minute) ==
  "Nov 3 at 2:" \o (IF minute < 10 THEN "0" ELSE "") \o Dec(minute) \o " PM EST"

----------------------------------------------------------------------------
(* main.ts: the action context and the entry each phase reports *)

\* sha.slice(0, 7)
ShortShaLen == 7

\* Inputs of an invocation: the repository, the pull request, the workflow
\* run, the staging server, and the commit at the head of the branch.
Owner == "o"
RepoName == "r"
PrId == 12
RunId == "88"
BaseStagingUrl == "https://stg"
ThisUser == "bot"
OtherUser == "alice"

\* The full commit id of commit number i.
Sha(i) == "c0ffee" \o Digit(i) \o "d"

BuildTimes == {19}
BuildDurations == {Nil, Some(62)}

buildRunLink(runId) ==
  "https://github.com/" \o Owner \o "/" \o RepoName \o "/actions/runs/" \o runId

buildCommitLink(ctx) ==
  "https://github.com/" \o Owner \o "/" \o RepoName \o "/commit/" \o ctx.sha

\* The actionContext run() builds for a pull request; it never sets tag, so
\* every handler reads tag as undefined.  No job is matched and the run link
\* is the workflow run's.
ActionContext(sha, buildTime, buildDuration) ==
  LET shortSha == SubSeq(sha, 1, IF Len(sha) < ShortShaLen THEN Len(sha) ELSE ShortShaLen)
      commitUrl == BaseStagingUrl \o "/commit/" \o shortSha \o "/"
  IN  [runLink |-> buildRunLink(RunId),
       buildTime |-> buildTime,
       buildDuration |-> buildDuration,
       stagingUrl |-> BaseStagingUrl \o "/pr/" \o Dec(PrId) \o "/",
       commitUrl |-> commitUrl,
       shortSha |-> shortSha,
       sha |-> sha,
       prId |-> PrId,
       tag |-> Nil]

\* parseInt on a text that begins with decimal digits: the number its
\* longest prefix of digits writes.
RECURSIVE ParseDigits(_, _, _)
ParseDigits(str, i, acc) ==
  IF i > Len(str) \/ \A d \in 0..9 : Digit(d) # Char(str, i) THEN acc
  ELSE ParseDigits(str, i + 1, 10 * acc + (CHOOSE d \in 0..9 : Digit(d) = Char(str, i)))

parseInt(str) == ParseDigits(str, 1, 0)

\* run(): the build-duration input, a text, becomes a number or null.
parsedBuildDuration(buildDuration) ==
  IF Len(Trim(buildDuration)) > 0 THEN Some(parseInt(Trim(buildDuration))) ELSE Nil

\* The commits the invocations of Spec report on.
RunShas == {Sha(1), Sha(2)}

\* The build-duration input is passed only into the post invocation.
Contexts(shas, durations) ==
  {ActionContext(sha, t, d) : sha \in shas, t \in BuildTimes, d \in durations}

preEntry(ctx) ==
  [emoji |-> EmojiInProgress,
   status |-> StatusInProgress,
   deployUrl |-> Some(ctx.commitUrl),
   commitSha |-> ctx.shortSha,
   commitLink |-> buildCommitLink(ctx),
   buildTime |-> date(ctx.buildTime),
   buildDuration |-> Nil,
   runLink |-> ctx.runLink]

\* A success entry that never carries a duration.
postEntryUntimed(ctx) ==
  [emoji |-> EmojiSuccess,
   status |-> StatusSuccess,
   deployUrl |-> Some(ctx.commitUrl),
   commitSha |-> ctx.shortSha,
   commitLink |-> buildCommitLink(ctx),
   buildTime |-> date(ctx.buildTime),
   buildDuration |-> Nil,
   runLink |-> ctx.runLink]

postEntry(ctx) ==
  [emoji |-> EmojiSuccess,
   status |-> StatusSuccess,
   deployUrl |-> Some(ctx.commitUrl),
   commitSha |-> ctx.shortSha,
   commitLink |-> buildCommitLink(ctx),
   buildTime |-> date(ctx.buildTime),
   buildDuration |-> IF ctx.buildDuration # Nil THEN Some(duration(ctx.buildDuration[1]))
                     ELSE Nil,
   runLink |-> ctx.runLink]

\* A failure entry under the glyph of a success.
failureEntryGreen(ctx) ==
  [emoji |-> EmojiSuccess,
   status |-> StatusFailure,
   deployUrl |-> Nil,
   commitSha |-> ctx.shortSha,
   commitLink |-> buildCommitLink(ctx),
   buildTime |-> date(ctx.buildTime),
   buildDuration |-> Nil,
   runLink |-> ctx.runLink]

failureEntry(ctx) ==
  [emoji |-> EmojiFailure,
   status |-> StatusFailure,
   deployUrl |-> Nil,
   commitSha |-> ctx.shortSha,
   commitLink |-> buildCommitLink(ctx),
   buildTime |-> date(ctx.buildTime),
   buildDuration |-> Nil,
   runLink |-> ctx.runLink]

Modes == {"pre", "post", "failure"}

CurrentEntry(mode, ctx) ==
  CASE mode = "pre" -> preEntry(ctx)
    [] mode = "post" -> postEntry(ctx)
    [] mode = "failure" -> failureEntry(ctx)

----------------------------------------------------------------------------
(* main.ts: updateState *)

\* state.latest = current
\* A head update that also pushes the replaced head into the history.
UpdateLatestPushing(state, current) ==
  [previous |-> <<state.latest>> \o state.previous, latest |-> current]

\* A head update that forgets the history.
UpdateLatestAlone(state, current) == [previous |-> <<>>, latest |-> current]

\* A head update that refuses to go back from a finished build to In-progress.
UpdateLatestForward(state, current) ==
  IF state.latest.status # StatusInProgress /\ current.status = StatusInProgress
  THEN state
  ELSE [state EXCEPT !.latest = current]

UpdateLatest(state, current) == [state EXCEPT !.latest = current]

\* The scan of state.previous: Object.assign(entry, current) gives the entry
\* every field of current, at each position whose key is shortSha.
\* A scan that never finds the key.
PatchedNever(state, shortSha) == FALSE

Patched(state, shortSha) ==
  \E k \in 1..Len(state.previous) : state.previous[k].commitSha = shortSha

\* A patch that also makes the patched build the head.
PatchPreviousAndLatest(state, current, shortSha) ==
  [previous |-> [k \in 1..Len(state.previous) |->
                   IF state.previous[k].commitSha = shortSha THEN current
                   ELSE state.previous[k]],
   latest |-> current]

\* A patch that moves the patched build to the head, ordering the ledger by
\* each key's last report.
PatchPreviousToFront(state, current, shortSha) ==
  [previous |-> <<state.latest>> \o
                SelectSeq(state.previous, LAMBDA e : e.commitSha # shortSha),
   latest |-> current]

PatchPrevious(state, current, shortSha) ==
  [state EXCEPT !.previous =
     [k \in 1..Len(state.previous) |->
        IF state.previous[k].commitSha = shortSha THEN current ELSE state.previous[k]]]

\* A promotion that keeps only the displaced head as history.
PromoteTruncating(state, current) == [previous |-> <<state.latest>>, latest |-> current]

\* previous: [previousLatest, ...state.previous], latest: current
Promote(state, current) ==
  [previous |-> <<state.latest>> \o state.previous, latest |-> current]

\* Initialize the empty state with the new build entry
InitialState(current) == [previous |-> <<>>, latest |-> current]

\* updateState past the decoding of the comment: prior is Nil or Some(state).
Reconcile(current, prior, shortSha) ==
  IF prior # Nil
  THEN IF prior[1].latest.commitSha = shortSha
       THEN UpdateLatest(prior[1], current)
       ELSE IF Patched(prior[1], shortSha)
            THEN PatchPrevious(prior[1], current, shortSha)
            ELSE Promote(prior[1], current)
  ELSE InitialState(current)

\* A decoding that takes a comment it cannot read for no comment at all.
DecodePriorOrFresh(comment) ==
  IF comment # Nil
  THEN Bind(getBuildState(comment[1].body), LAMBDA decoded :
         IF decoded.threw THEN [threw |-> FALSE, value |-> Nil] ELSE decoded)
  ELSE [threw |-> FALSE, value |-> Nil]

\* What updateState decodes: no prior state without a comment, else the
\* result of getBuildState on the comment's body (which may throw).
DecodePrior(comment) ==
  IF comment # Nil THEN getBuildState(comment[1].body) ELSE [threw |-> FALSE, value |-> Nil]

updateState(current, comment, ctx) ==
  Bind(DecodePrior(comment), LAMBDA decoded :
    IF decoded.threw THEN Throw
    ELSE Return(Reconcile(current, decoded.value, ctx.shortSha)))

----------------------------------------------------------------------------
(* main.ts: the comment store behind the GitHub API *)

\* A lookup that takes the first comment with the marker, whoever wrote it.
getActionCommentAnyUser(cs, tag) ==
  Bind(SelectSeq(cs, LAMBDA c : isStagingComment(c.body, tag)),
       LAMBDA special : IF Len(special) >= 1 THEN Some(special[1]) ELSE Nil)

\* A lookup that takes the pull request's first comment, whoever wrote it
\* and whatever it begins with.
getActionCommentFirst(cs, tag) == IF Len(cs) >= 1 THEN Some(cs[1]) ELSE Nil

\* A comment is [id, user, body]; comments lists the pull request's comments
\* in the order issues.listComments returns them.
getActionComment(cs, tag) ==
  Bind(SelectSeq(cs, LAMBDA c : c.user = ThisUser /\ isStagingComment(c.body, tag)),
       LAMBDA special : IF Len(special) >= 1 THEN Some(special[1]) ELSE Nil)

updateComment(cs, id, body) ==
  [k \in 1..Len(cs) |-> IF cs[k].id = id THEN [cs[k] EXCEPT !.body = body] ELSE cs[k]]

createComment(cs, body) ==
  Append(cs, [id |-> Len(cs) + 1, user |-> ThisUser, body |-> body])

\* A write that falls back on the pull request's first comment.
patchCommentFirst(newBody, comment, cs) ==
  IF comment # Nil
  THEN [op |-> "updateComment", comments |-> updateComment(cs, comment[1].id, newBody)]
  ELSE IF cs # <<>>
       THEN [op |-> "updateComment", comments |-> updateComment(cs, cs[1].id, newBody)]
       ELSE [op |-> "createComment", comments |-> createComment(cs, newBody)]

\* A write that updates the comment found and creates a new one as well.
patchCommentBoth(newBody, comment, cs) ==
  IF comment # Nil
  THEN [op |-> "updateComment",
        comments |-> createComment(updateComment(cs, comment[1].id, newBody), newBody)]
  ELSE [op |-> "createComment", comments |-> createComment(cs, newBody)]

\* The write patchComment performs and the comments after it.
patchComment(newBody, comment, cs) ==
  IF comment # Nil
  THEN [op |-> "updateComment", comments |-> updateComment(cs, comment[1].id, newBody)]
  ELSE [op |-> "createComment", comments |-> createComment(cs, newBody)]

----------------------------------------------------------------------------
(* main.ts: pre, post and failure *)

\* The try block around got(commitUrl) holds a call that is not awaited: the
\* request's failure arrives as a rejected promise, never as an exception
\* the catch clause sees.
isError == FALSE

\* The template a handler renders its comment with.
Render(template, args) ==
  CASE template = "building" -> building(args)
    [] template = "successful" -> successful(args)
    [] template = "failed" -> failed(args)

\* One pass of a handler over the comments cs: find the comment, reconcile,
\* render with the template, write back.  An exception of updateState ends the
\* pass before any write.
Pass(cs, ctx, current, template) ==
  Bind(getActionComment(cs, ctx.tag), LAMBDA comment :
    Bind(updateState(current, comment, ctx), LAMBDA result :
      IF result.threw
      THEN [threw |-> TRUE, found |-> comment # Nil, prior |-> Nil, state |-> Nil,
            ops |-> <<>>, comments |-> cs]
      ELSE Bind(patchComment(Render(template, [prId |-> Dec(ctx.prId), url |-> ctx.stagingUrl,
                                               tag |-> Nil, state |-> result.value[1]]),
                             comment, cs), LAMBDA written :
             [threw |-> FALSE, found |-> comment # Nil,
              prior |-> DecodePrior(comment).value, state |-> result.value,
              ops |-> <<written.op>>, comments |-> written.comments])))

\* The record an invocation leaves: what it was, what it found and wrote.
Record(mode, ctx, first, done) ==
  [mode |-> mode, shortSha |-> ctx.shortSha, found |-> first.found,
   ops |-> done.ops, threw |-> done.threw]

Finish(mode, ctx, current, first, done) ==
  /\ comments' = done.comments
  /\ log' = Append(log, Record(mode, ctx, first, done))
  /\ lastCurrent' = Some(current)
  /\ lastPrior' = done.prior
  /\ lastState' = done.state
  /\ UNCHANGED docVars
  /\ UNCHANGED raceVars
  /\ UNCHANGED step

pre ==
  /\ Len(log) < MaxRuns
  /\ \E ctx \in Contexts(RunShas, {Nil}) :
       \E current \in {preEntry(ctx)} :
         \E first \in {Pass(comments, ctx, current, "building")} :
           Finish("pre", ctx, current, first, first)

\* The second pass of post, taken when the check of the commit link failed.
postAgain(ctx, current, first) ==
  \E cleared \in {[current EXCEPT !.deployUrl = Nil]} :
    \E second \in {Pass(first.comments, ctx, cleared, "successful")} :
      Finish("post", ctx, cleared, first, [second EXCEPT !.ops = first.ops \o second.ops])

post ==
  /\ Len(log) < MaxRuns
  /\ \E ctx \in Contexts(RunShas, BuildDurations) :
       \E current \in {postEntry(ctx)} :
         \E first \in {Pass(comments, ctx, current, "successful")} :
           IF ~first.threw /\ isError
           THEN postAgain(ctx, current, first)
           ELSE Finish("post", ctx, current, first, first)

failure ==
  /\ Len(log) < MaxRuns
  /\ \E ctx \in Contexts(RunShas, {Nil}) :
       \E current \in {failureEntry(ctx)} :
         \E first \in {Pass(comments, ctx, current, "failed")} :
           Finish("failure", ctx, current, first, first)

\* The pull request before the action first runs: no comment, another user's
\* comment that carries the marker, or an ordinary comment of the action's user.
InitialComments ==
  { <<>>,
    <<[id |-> 1, user |-> OtherUser, body |-> COMMENT_TAG(Nil) \o "\nNot the action's."]>>,
    <<[id |-> 1, user |-> ThisUser, body |-> "Thanks for the pull request."]>> }

\* No body is being read by hand.
NoDoc == [sentinel |-> Nil, lead |-> "", rows |-> <<>>, origin |-> Nil, body |-> ""]

NothingRead ==
  /\ doc = NoDoc
  /\ docTag = Nil
  /\ docStaging = Nil
  /\ docDecoded = Nil

\* No workflow step is followed from its main hook to its cleanup hook.
NoStepTaken == step = <<>>

\* No invocation overlaps another.
NothingInFlight ==
  /\ store = <<>>
  /\ flights = <<>>

Init ==
  /\ comments \in InitialComments
  /\ log = <<>>
  /\ lastCurrent = Nil
  /\ lastPrior = Nil
  /\ lastState = Nil
  /\ NothingRead
  /\ NothingInFlight
  /\ NoStepTaken

Next == pre \/ post \/ failure

Spec == Init /\ [][Next]_vars

----------------------------------------------------------------------------
(* The reconciler alone: a sequence of updateState results folded in memory,
   each from the state the call before returned.  The entries are those of
   the three phases: pre and failure carry no duration, post carries one. *)

reconcile ==
  \E ctx \in Contexts({Sha(i) : i \in 1..NumShas}, BuildDurations \ {Nil}), mode \in Modes :
    \E current \in {CurrentEntry(mode, ctx)} :
        /\ lastPrior' = lastState
        /\ lastCurrent' = Some(current)
        /\ lastState' = Some(Reconcile(current, lastState, ctx.shortSha))
        /\ UNCHANGED <<comments, log>>
        /\ UNCHANGED docVars
        /\ UNCHANGED raceVars
        /\ UNCHANGED step

InitReconcile ==
  /\ comments = <<>>
  /\ log = <<>>
  /\ lastCurrent = Nil
  /\ lastPrior = Nil
  /\ lastState = Nil
  /\ NothingRead
  /\ NothingInFlight
  /\ NoStepTaken

NextReconcile == reconcile

SpecReconcile == InitReconcile /\ [][NextReconcile]_vars

----------------------------------------------------------------------------
(* The reader alone: isStagingComment and getBuildState on one comment body,
   as getActionComment and updateState call them.  The body is one the
   templates rendered, or one edited by hand on the pull request. *)

\* The rows of a state, head first.
Entries(state) == <<state.latest>> \o state.previous

\* The tag input: absent, or the name of a job.
TagInputs == {Nil, Some("job"), Some("job2")}

Templates == {"building", "successful", "failed"}

\* The entries the three phases report for commit number i.
DocEntries(i) ==
  {CurrentEntry(mode, ctx) : mode \in Modes, ctx \in Contexts({Sha(i)}, BuildDurations \ {Nil})}

\* Sequences of n entries, the k-th for commit number k.
RECURSIVE EntrySeqs(_)
EntrySeqs(n) ==
  IF n = 0 THEN {<<>>}
  ELSE {Append(es, e) : es \in EntrySeqs(n - 1), e \in DocEntries(n)}

DocStates ==
  {[latest |-> Head(es), previous |-> Tail(es)] :
     es \in UNION {EntrySeqs(n) : n \in 1..MaxRows}}

\* A comment body as a template renders it for a state and a tag.
RenderedDocs ==
  {[sentinel |-> t, lead |-> "",
    rows |-> [k \in 1..Len(Entries(st)) |-> entry(Entries(st)[k])],
    origin |-> Some(st),
    body |-> Render(template, [prId |-> Dec(PrId), url |-> BaseStagingUrl,
                               tag |-> t, state |-> st])] :
     st \in DocStates, template \in Templates, t \in TagInputs}

\* A table row written by hand from its cells.
Row(cells) == "| " \o Join(cells, " | ") \o " |"

GoodCells ==
  <<EmojiSuccess, StatusSuccess, link("link", "https://stg/commit/c0ffee1/"),
    link(BT \o "c0ffee1" \o BT, "https://github.com/o/r/commit/c0ffee1d"),
    "Nov 3 at 2:19 PM EST", "1m 2s", link("link", "https://github.com/o/r/actions/runs/88")>>

\* The rows a hand-edited body holds: two sound rows (one with placeholders)
\* and rows with a cell removed, a blank cell added, an unknown glyph or
\* status, or a cell that should be a link and is not.
SoundRows ==
  {Row(GoodCells),
   Row([GoodCells EXCEPT ![1] = EmojiFailure, ![2] = StatusFailure, ![3] = NULL, ![6] = NULL])}

EditedRows ==
  SoundRows \cup
  {Row(SubSeq(GoodCells, 1, 4) \o SubSeq(GoodCells, 6, 7)),
   Row(Append(GoodCells, "")),
   Row([GoodCells EXCEPT ![1] = ":rocket:"]),
   Row([GoodCells EXCEPT ![2] = "Queued"]),
   Row([GoodCells EXCEPT ![3] = "https://stg/commit/c0ffee1/"]),
   Row([GoodCells EXCEPT ![4] = "c0ffee1"]),
   Row([GoodCells EXCEPT ![7] = "link"])}

RECURSIVE RowSeqs(_)
RowSeqs(n) ==
  IF n = 0 THEN {<<>>}
  ELSE RowSeqs(n - 1) \cup
       {Append(rs, r) : rs \in {q \in RowSeqs(n - 1) : Len(q) = n - 1}, r \in EditedRows}

\* The layout of details() around rows given as text.
LedgerBody(t, rows) ==
  COMMENT_TAG(t) \o "\nA deploy preview has been created for this Pull Request.\n\n"
  \o "\n#### Build details\n\n" \o HEADER_ROW \o "\n" \o SEPARATOR_ROW \o "\n"
  \o (IF Len(rows) >= 1 THEN rows[1] ELSE "")
  \o "\n\n<details><summary>Previous builds</summary>\n<p>\n\n"
  \o (IF Len(rows) >= 2
      THEN HEADER_ROW \o "\n" \o SEPARATOR_ROW \o "\n" \o Join(Tail(rows), "\n")
      ELSE "No previous builds found")
  \o "\n\n</p>\n</details>"

\* What may stand before the marker: nothing, white space, or text.
Leads == {"", "\n  ", "Note: "}

EditedDocs ==
  {[sentinel |-> Nil, lead |-> ld, rows |-> rs, origin |-> Nil,
    body |-> ld \o LedgerBody(Nil, rs)] : ld \in Leads, rs \in RowSeqs(MaxEditedRows)}

\* A comment that carries the marker and no table at all.
PlainDocs ==
  {[sentinel |-> t, lead |-> "", rows |-> <<>>, origin |-> Nil,
    body |-> COMMENT_TAG(t) \o "\nNothing has been built yet."] : t \in TagInputs}

\* getActionComment's filter on one body.
classify ==
  /\ docStaging = Nil
  /\ docStaging' = Some(isStagingComment(doc.body, docTag))
  /\ UNCHANGED <<doc, docTag, docDecoded>>
  /\ UNCHANGED ledgerVars
  /\ UNCHANGED raceVars
  /\ UNCHANGED step

\* updateState's decoding of the comment getActionComment returned.
decode ==
  /\ docStaging = Some(TRUE)
  /\ docDecoded = Nil
  /\ docDecoded' = Some(getBuildState(doc.body))
  /\ UNCHANGED <<doc, docTag, docStaging>>
  /\ UNCHANGED ledgerVars
  /\ UNCHANGED raceVars
  /\ UNCHANGED step

InitDecode ==
  /\ doc \in RenderedDocs \cup EditedDocs \cup PlainDocs
  /\ docTag \in TagInputs
  /\ docStaging = Nil
  /\ docDecoded = Nil
  /\ comments = <<>>
  /\ log = <<>>
  /\ lastCurrent = Nil
  /\ lastPrior = Nil
  /\ lastState = Nil
  /\ NothingInFlight
  /\ NoStepTaken

NextDecode == classify \/ decode

SpecDecode == InitDecode /\ [][NextDecode]_vars

----------------------------------------------------------------------------
(* Invocations with the tag input: run() reads it and builds the
   actionContext the handlers get.  The pull request may hold a ledger
   comment of the action's user that carries a tag's marker. *)

TemplateOf(mode) ==
  CASE mode = "pre" -> "building"
    [] mode = "post" -> "successful"
    [] mode = "failure" -> "failed"

\* A ledger comment marked for tag t, reporting commit number i.
TaggedComment(t, i) ==
  [id |-> 1, user |-> ThisUser,
   body |-> Render("successful",
                   [prId |-> Dec(PrId), url |-> BaseStagingUrl, tag |-> t,
                    state |-> InitialState(CHOOSE e \in DocEntries(i) :
                                             e.status = StatusSuccess)])]

TaggedComments ==
  {<<>>} \cup {<<TaggedComment(t, 2)>> : t \in TagInputs \ {Nil}}

\* The action user's ledger comment after an edit by hand: a row that lost
\* a cell, or no table at all.
DamagedBodies ==
  {LedgerBody(Nil, <<Row(SubSeq(GoodCells, 1, 4) \o SubSeq(GoodCells, 6, 7))>>),
   COMMENT_TAG(Nil) \o "\nNothing has been built yet."}

DamagedComments == {<<[id |-> 1, user |-> ThisUser, body |-> b]>> : b \in DamagedBodies}

\* The record of an invocation together with the tag input it was given and
\* the outcome of the request got(commitUrl) sent: bootstrap's catch clause
\* hands a thrown error's message to core.setFailed (threw).
FinishTagged(tagInput, requestFails, mode, ctx, current, first, done) ==
  /\ comments' = done.comments
  /\ log' = Append(log, [tag |-> tagInput, mode |-> mode, shortSha |-> ctx.shortSha,
                         found |-> first.found, ops |-> done.ops, threw |-> done.threw,
                         requestFailed |-> requestFails])
  /\ lastCurrent' = Some(current)
  /\ lastPrior' = done.prior
  /\ lastState' = done.state
  /\ UNCHANGED docVars
  /\ UNCHANGED raceVars
  /\ UNCHANGED step

\* One invocation of the action: the tag input is one of tagInputs, and in
\* post mode the request fails or not as outcomes allows.
Invocation(tagInputs, outcomes) ==
     \E tagInput \in tagInputs, mode \in Modes :
       \E requestFails \in (IF mode = "post" THEN outcomes ELSE {FALSE}) :
         \E ctx \in Contexts({Sha(1)}, BuildDurations \ {Nil}) :
           \E current \in {CurrentEntry(mode, ctx)} :
             \E first \in {Pass(comments, ctx, current, TemplateOf(mode))} :
               IF mode = "post" /\ ~first.threw /\ isError
               THEN \E cleared \in {[current EXCEPT !.deployUrl = Nil]} :
                      \E second \in {Pass(first.comments, ctx, cleared, "successful")} :
                        FinishTagged(tagInput, requestFails, mode, ctx, cleared, first,
                                     [second EXCEPT !.ops = first.ops \o second.ops])
               ELSE FinishTagged(tagInput, requestFails, mode, ctx, current, first, first)

run ==
  /\ Len(log) < MaxTaggedRuns
  /\ Invocation(TagInputs, {FALSE})

InitTagged ==
  /\ comments \in TaggedComments
  /\ log = <<>>
  /\ lastCurrent = Nil
  /\ lastPrior = Nil
  /\ lastState = Nil
  /\ NothingRead
  /\ NothingInFlight
  /\ NoStepTaken

NextTagged == run

SpecTagged == InitTagged /\ [][NextTagged]_vars

----------------------------------------------------------------------------
(* Invocations that meet a fault: a ledger comment that was edited by hand
   and no longer decodes, or, in post mode, a request to the commit's deploy
   URL that fails. *)

runChecked ==
  /\ Len(log) < MaxCheckedRuns
  /\ Invocation({Nil}, BOOLEAN)

InitChecked ==
  /\ comments \in {<<>>} \cup DamagedComments
  /\ log = <<>>
  /\ lastCurrent = Nil
  /\ lastPrior = Nil
  /\ lastState = Nil
  /\ NothingRead
  /\ NothingInFlight
  /\ NoStepTaken

NextChecked == runChecked

SpecChecked == InitChecked /\ [][NextChecked]_vars

----------------------------------------------------------------------------
(* Invocations on a pull request that other users comment on as well, and
   that may hold more than one ledger comment of the action's user. *)

\* The ledger comment of user u with id n, reporting commit number i.
LedgerComment(n, u, i) == [TaggedComment(Nil, i) EXCEPT !.id = n, !.user = u]

\* Another user's copy of a ledger before two ledgers of the action's user;
\* an ordinary comment, another user's ledger and one of the action's user;
\* another user's ledger alone.
SharedComments ==
  { <<LedgerComment(1, OtherUser, 8), LedgerComment(2, ThisUser, 9),
      LedgerComment(3, ThisUser, 7)>>,
    <<[id |-> 1, user |-> ThisUser, body |-> "Thanks for the pull request."],
      LedgerComment(2, OtherUser, 8), LedgerComment(3, ThisUser, 9)>>,
    <<LedgerComment(1, OtherUser, 8)>> }

runShared ==
  /\ Len(log) < MaxSharedRuns
  /\ Invocation({Nil}, {FALSE})

InitShared ==
  /\ comments \in SharedComments
  /\ log = <<>>
  /\ lastCurrent = Nil
  /\ lastPrior = Nil
  /\ lastState = Nil
  /\ NothingRead
  /\ NothingInFlight
  /\ NoStepTaken

NextShared == runShared

SpecShared == InitShared /\ [][NextShared]_vars

----------------------------------------------------------------------------
(* The entry a handler builds from the inputs of one invocation: the mode,
   the commit and the build-duration input as run() reads it, a text. *)

\* The build-duration input: not given, blank, or a number of seconds,
\* alone or with white space or a unit around it.
DurationInputs == {"", "  ", " 62 ", "62s"} \cup {Dec(n) : n \in 0..MaxSeconds}

buildEntry ==
  /\ lastCurrent = Nil
  /\ \E ctx \in {ActionContext(log[1].sha, CHOOSE t \in BuildTimes : TRUE,
                                parsedBuildDuration(log[1].buildDuration))} :
       lastCurrent' = Some(CurrentEntry(log[1].mode, ctx))
  /\ UNCHANGED <<comments, log, lastPrior, lastState>>
  /\ UNCHANGED docVars
  /\ UNCHANGED raceVars
  /\ UNCHANGED step

InitEntry ==
  /\ log \in {<<[mode |-> m, sha |-> s, buildDuration |-> d]>> :
                m \in Modes, s \in RunShas, d \in DurationInputs}
  /\ comments = <<>>
  /\ lastCurrent = Nil
  /\ lastPrior = Nil
  /\ lastState = Nil
  /\ NothingRead
  /\ NothingInFlight
  /\ NoStepTaken

NextEntry == buildEntry

SpecEntry == InitEntry /\ [][NextEntry]_vars

----------------------------------------------------------------------------
(* Invocations that overlap.  A handler awaits two requests: the listing of
   the pull request's comments (getActionComment) and the write
   (patchComment); between the two, other invocations may run.  The comment
   store holds the comments of every pull request of the repository, each
   under an id of its own; invocation number i reports on commit number i. *)

OtherPrId == 13
PRs == {PrId, OtherPrId}

\* The actionContext of invocation i on pull request p.
RaceContext(i, p) ==
  [ActionContext(Sha(i), CHOOSE t \in BuildTimes : TRUE, Some(62))
     EXCEPT !.prId = p, !.stagingUrl = BaseStagingUrl \o "/pr/" \o Dec(p) \o "/"]

\* A listing that returns the comments of every pull request.
listCommentsAnywhere(st, prId) == st[PrId] \o st[OtherPrId]

\* issues.listComments({issue_number: prId}).
listComments(st, prId) == st[prId]

\* The id the store gives the next comment.
NextId(st) ==
  1 + MaxOf({0} \cup UNION {{st[p][k].id : k \in 1..Len(st[p])} : p \in DOMAIN st})

\* A write that is dropped when the comment is no longer as it was read.
patchStoreIfUnchanged(newBody, comment, ctx, st) ==
  IF comment # Nil
  THEN [op |-> "updateComment",
        store |-> IF \E k \in 1..Len(st[ctx.prId]) : st[ctx.prId][k] = comment[1]
                  THEN [p \in DOMAIN st |-> updateComment(st[p], comment[1].id, newBody)]
                  ELSE st]
  ELSE [op |-> "createComment",
        store |-> [st EXCEPT ![ctx.prId] =
                     Append(@, [id |-> NextId(st), user |-> ThisUser, body |-> newBody])]]

\* patchComment on the store: updateComment names the comment by its id
\* alone, createComment names the pull request.
patchStore(newBody, comment, ctx, st) ==
  IF comment # Nil
  THEN [op |-> "updateComment",
        store |-> [p \in DOMAIN st |-> updateComment(st[p], comment[1].id, newBody)]]
  ELSE [op |-> "createComment",
        store |-> [st EXCEPT ![ctx.prId] =
                     Append(@, [id |-> NextId(st), user |-> ThisUser, body |-> newBody])]]

Flights == 1..MaxFlights

\* The writes pull request p has received.
Version(p) == Cardinality({i \in Flights : flights[i].pc = "done" /\ flights[i].pr = p})

Ready ==
  [pc |-> "ready", pr |-> 0, mode |-> "", comment |-> Nil, readVer |-> 0, wroteVer |-> 0,
   op |-> ""]

\* Invocation i starts on a pull request and awaits the listing of its comments.
fetch(i) ==
  /\ flights[i].pc = "ready"
  /\ \E p \in PRs, mode \in Modes :
       \E ctx \in {RaceContext(i, p)} :
         flights' = [flights EXCEPT ![i] =
                       [pc |-> "fetched", pr |-> p, mode |-> mode,
                        comment |-> getActionComment(listComments(store, ctx.prId), ctx.tag),
                        readVer |-> Version(p), wroteVer |-> 0, op |-> ""]]
  /\ UNCHANGED store
  /\ UNCHANGED ledgerVars
  /\ UNCHANGED docVars
  /\ UNCHANGED step

\* Invocation i reconciles what it read and awaits the write.
write(i) ==
  /\ flights[i].pc = "fetched"
  /\ \E ctx \in {RaceContext(i, flights[i].pr)} :
       \E result \in {updateState(CurrentEntry(flights[i].mode, ctx), flights[i].comment, ctx)} :
         IF result.threw
         THEN /\ flights' = [flights EXCEPT ![i].pc = "failed", ![i].comment = Nil]
              /\ UNCHANGED store
         ELSE \E written \in {patchStore(Render(TemplateOf(flights[i].mode),
                                                [prId |-> Dec(ctx.prId), url |-> ctx.stagingUrl,
                                                 tag |-> Nil, state |-> result.value[1]]),
                                         flights[i].comment, ctx, store)} :
                /\ store' = written.store
                /\ flights' = [flights EXCEPT ![i].pc = "done", ![i].comment = Nil,
                                              ![i].wroteVer = Version(flights[i].pr) + 1,
                                              ![i].op = written.op]
  /\ UNCHANGED ledgerVars
  /\ UNCHANGED docVars
  /\ UNCHANGED step

\* Pull request PrId holds the ledger an earlier build left, the other
\* pull request holds no comment.
RaceStore ==
  [p \in PRs |-> IF p = PrId THEN <<TaggedComment(Nil, 9)>> ELSE <<>>]

InitRace ==
  /\ store = RaceStore
  /\ flights = [i \in Flights |-> Ready]
  /\ comments = <<>>
  /\ log = <<>>
  /\ lastCurrent = Nil
  /\ lastPrior = Nil
  /\ lastState = Nil
  /\ NothingRead
  /\ NoStepTaken

NextRace == \E i \in Flights : fetch(i) \/ write(i)

SpecRace == InitRace /\ [][NextRace]_vars

----------------------------------------------------------------------------
(* One workflow step that uses the action: its main hook (index.ts,
   bootstrap) and, when the job ends, its cleanup hook (cleanup).  The step
   is given a mode input and runs on an event; the pull request's head is
   the repository itself or a fork, and its branch has commits or none.
   GITHUB_RUN_ID is set or not, and the GitHub API answers a hook or fails
   at its first request. *)

ModeInputs == {"pre", "post", "failure", "", "build"}
Events == {"pull_request", "push"}
Heads == {"own", "fork"}

\* A mode check that lets any text through.
isModeAny(mode) == TRUE

\* bootstrap: mode === "pre" || mode === "post" || mode === "failure"
isMode(mode) == mode \in Modes

\* An event check that takes every event for a pull request's.
isPrAlways(env) == TRUE

\* context.eventName === "pull_request"
isPr(env) == env.event = "pull_request"

\* A lookup of the latest commit that checks neither the head repository
\* nor the number of commits.
getLatestCommitTrusting(env) == [threw |-> FALSE, calls |-> <<"pulls.get", "listCommits">>]

\* getLatestCommit: the requests it sends and whether it throws.
getLatestCommit(env) ==
  IF env.head # "own" THEN [threw |-> TRUE, calls |-> <<"pulls.get">>]
  ELSE IF env.commits = 0 THEN [threw |-> TRUE, calls |-> <<"pulls.get", "listCommits">>]
  ELSE [threw |-> FALSE, calls |-> <<"pulls.get", "listCommits">>]

\* A cleanup that runs whatever the mode input.
shouldRunAlways(modeInput) == TRUE

\* cleanup: core.getInput("mode") === "post"
shouldRun(modeInput) == modeInput = "post"

\* What a call of run() did: whether it threw, the requests it sent, whether
\* it saved stagingSuccess and set its outputs, and the comments after it.
Outcome(threw, calls, saved, outputs, cs) ==
  [threw |-> threw, calls |-> calls, saved |-> saved, outputs |-> outputs, comments |-> cs]

\* The switch at the end of run(): stagingSuccess is saved before post is
\* awaited; a mode that is no case of the switch does nothing.
Dispatch(mode, cs) ==
  IF mode \in Modes
  THEN Bind(ActionContext(Sha(1), CHOOSE t \in BuildTimes : TRUE, Some(62)), LAMBDA ctx :
         Bind(Pass(cs, ctx, CurrentEntry(mode, ctx), TemplateOf(mode)), LAMBDA p :
           Outcome(p.threw, <<"getAuthenticated", "listComments">> \o p.ops,
                   mode = "post", TRUE, p.comments)))
  ELSE Outcome(FALSE, <<>>, FALSE, TRUE, cs)

\* run(mode) in the environment env, the API answering (up) or not.
RunAction(mode, env, up, cs) ==
  IF ~env.runId THEN Outcome(TRUE, <<>>, FALSE, FALSE, cs)
  ELSE IF ~up THEN Outcome(TRUE, <<"listJobsForWorkflowRun">>, FALSE, FALSE, cs)
  ELSE IF isPr(env)
       THEN Bind(getLatestCommit(env), LAMBDA c :
              IF c.threw
              THEN Outcome(TRUE, <<"listJobsForWorkflowRun">> \o c.calls, FALSE, FALSE, cs)
              ELSE Bind(Dispatch(mode, cs), LAMBDA d :
                     Outcome(d.threw,
                             <<"listJobsForWorkflowRun">> \o c.calls \o <<"pulls.get">>
                               \o d.calls,
                             d.saved, TRUE, d.comments)))
       ELSE Outcome(FALSE, <<"listJobsForWorkflowRun">>, FALSE, TRUE, cs)

\* The main hook: run(mode) for a mode of the action, its error caught and
\* handed to core.setFailed.
bootstrap ==
  /\ step.pc = "main"
  /\ \E up \in BOOLEAN :
       \E r \in {IF isMode(step.mode) THEN RunAction(step.mode, step, up, comments)
                 ELSE Outcome(FALSE, <<>>, FALSE, FALSE, comments)} :
         /\ step' = [step EXCEPT !.pc = "cleanup", !.failed = r.threw, !.calls = r.calls,
                                 !.stagingSuccess = r.saved, !.outputs = r.outputs]
         /\ comments' = r.comments
  /\ UNCHANGED <<log, lastCurrent, lastPrior, lastState>>
  /\ UNCHANGED docVars
  /\ UNCHANGED raceVars

\* The cleanup hook: run("failure") when the step's mode is post and the
\* main hook did not save stagingSuccess.
cleanup ==
  /\ step.pc = "cleanup"
  /\ \E up \in BOOLEAN :
       IF ~step.stagingSuccess /\ shouldRun(step.mode)
       THEN \E r \in {RunAction("failure", step, up, comments)} :
              /\ step' = [step EXCEPT !.pc = "done", !.ranFailure = TRUE,
                                      !.cleanupFailed = r.threw, !.cleanupCalls = r.calls]
              /\ comments' = r.comments
       ELSE /\ step' = [step EXCEPT !.pc = "done"]
            /\ UNCHANGED comments
  /\ UNCHANGED <<log, lastCurrent, lastPrior, lastState>>
  /\ UNCHANGED docVars
  /\ UNCHANGED raceVars

InitJob ==
  /\ step \in {[pc |-> "main", mode |-> m, event |-> e, head |-> h, commits |-> c,
                 runId |-> id, stagingSuccess |-> FALSE, failed |-> FALSE, outputs |-> FALSE,
                 calls |-> <<>>, ranFailure |-> FALSE, cleanupFailed |-> FALSE,
                 cleanupCalls |-> <<>>] :
                m \in ModeInputs, e \in Events, h \in Heads, c \in {0, 1}, id \in BOOLEAN}
  /\ comments \in {<<>>} \cup DamagedComments
  /\ log = <<>>
  /\ lastCurrent = Nil
  /\ lastPrior = Nil
  /\ lastState = Nil
  /\ NothingRead
  /\ NothingInFlight

NextJob == bootstrap \/ cleanup

SpecJob == InitJob /\ [][NextJob]_vars

----------------------------------------------------------------------------
(* Properties of the codec and of the reconciler *)

Last(seq) == seq[Len(seq)]

\* The keys of a state's rows.
Keys(state) == {Entries(state)[k].commitSha : k \in 1..Len(Entries(state))}
Count(prior) == IF prior = Nil THEN 0 ELSE Len(Entries(prior[1]))
DistinctKeys(state) == Cardinality(Keys(state)) = Len(Entries(state))

RenderArgs(state) ==
  [prId |-> Dec(PrId), url |-> BaseStagingUrl, tag |-> Nil, state |-> state]

\* C1: for every state the reconciler builds, decoding the comment rendered
\* from it (by building, successful or failed, each embedding details(S) and
\* so entry of each row) returns that state, field for field.
C1_RoundTrip ==
  lastState # Nil =>
    /\ getBuildState(building(RenderArgs(lastState[1]))) = Return(lastState[1])
    /\ getBuildState(successful(RenderArgs(lastState[1]))) = Return(lastState[1])
    /\ getBuildState(failed(RenderArgs(lastState[1]))) = Return(lastState[1])

\* What the round trip does return: the state with one more backtick at the
\* end of every commit key, and nothing else changed.
Ticked(e) == [e EXCEPT !.commitSha = @ \o BT]
TickedState(state) ==
  [latest |-> Ticked(state.latest),
   previous |-> [k \in 1..Len(state.previous) |-> Ticked(state.previous[k])]]

RoundTripAddsBacktick ==
  lastState # Nil =>
    /\ getBuildState(building(RenderArgs(lastState[1]))) = Return(TickedState(lastState[1]))
    /\ getBuildState(successful(RenderArgs(lastState[1]))) = Return(TickedState(lastState[1]))
    /\ getBuildState(failed(RenderArgs(lastState[1]))) = Return(TickedState(lastState[1]))

\* C2: when the first invocation finds no comment and is a pre for commit K,
\* and the second is a post or a failure for K, the state after the second
\* has one row (K as head, no history); a pre for another commit after them
\* leaves two rows.
C2_PhaseConvergence ==
  (/\ Len(log) >= 2
   /\ log[1].mode = "pre" /\ ~log[1].found
   /\ log[2].mode \in {"post", "failure"} /\ log[2].shortSha = log[1].shortSha)
  => /\ Len(log) = 2 =>
          /\ lastState # Nil
          /\ lastState[1].previous = <<>>
          /\ lastState[1].latest.commitSha = log[1].shortSha
          /\ Len(EntryLines(getActionComment(comments, Nil)[1].body)) = 1
     /\ (Len(log) = 3 /\ log[3].mode = "pre" /\ log[3].shortSha # log[1].shortSha) =>
          /\ lastState # Nil
          /\ Len(lastState[1].previous) = 1
          /\ Len(EntryLines(getActionComment(comments, Nil)[1].body)) = 2

\* C3: decoding a rendered row gives back the commit key with its backticks
\* removed, so that comparing keys is not affected by how the key is shown.
C3_BacktickStripping ==
  lastState # Nil =>
    \A k \in 1..Len(Entries(lastState[1])) :
      \E row \in {parseBuildEntry(entry(Entries(lastState[1])[k]))} :
        /\ ~row.threw
        /\ Places(row.value[1].commitSha, BT) = {}
        /\ row.value[1].commitSha = Entries(lastState[1])[k].commitSha

\* C4: when the prior state exists and the current key is neither the head's
\* nor any history row's, the result has the current entry as head and the
\* former head followed by the former history as history.
C4_NewKeyPromotion ==
  (/\ lastPrior # Nil /\ lastCurrent # Nil
   /\ lastCurrent[1].commitSha \notin Keys(lastPrior[1]))
  => /\ lastState # Nil
     /\ lastState[1].latest = lastCurrent[1]
     /\ lastState[1].previous = <<lastPrior[1].latest>> \o lastPrior[1].previous

C4_Witness ==
  /\ lastPrior # Nil /\ lastCurrent # Nil /\ lastState # Nil
  /\ Len(lastPrior[1].previous) >= 1
  /\ lastCurrent[1].commitSha \notin Keys(lastPrior[1])
  /\ Len(lastState[1].previous) = Len(lastPrior[1].previous) + 1

\* C5: when the prior head's key is the current key, the result's head is the
\* current entry and its history is the prior history, unchanged.
C5_HeadMatch ==
  (/\ lastPrior # Nil /\ lastCurrent # Nil
   /\ lastPrior[1].latest.commitSha = lastCurrent[1].commitSha)
  => /\ lastState # Nil
     /\ lastState[1].latest = lastCurrent[1]
     /\ lastState[1].previous = lastPrior[1].previous

C5_Witness ==
  /\ lastPrior # Nil /\ lastCurrent # Nil /\ lastState # Nil
  /\ lastPrior[1].latest.commitSha = lastCurrent[1].commitSha
  /\ lastPrior[1].latest # lastCurrent[1]
  /\ Len(lastPrior[1].previous) >= 1
  /\ lastState[1].latest.status = StatusSuccess

\* C6: when the head's key differs from the current key and a history row has
\* it, the result keeps the head, the history's length and order, and every
\* history row but that one, which becomes the current entry.
C6_MidHistoryPatch ==
  (/\ lastPrior # Nil /\ lastCurrent # Nil
   /\ lastPrior[1].latest.commitSha # lastCurrent[1].commitSha
   /\ \E k \in 1..Len(lastPrior[1].previous) :
        lastPrior[1].previous[k].commitSha = lastCurrent[1].commitSha)
  => /\ lastState # Nil
     /\ lastState[1].latest = lastPrior[1].latest
     /\ Len(lastState[1].previous) = Len(lastPrior[1].previous)
     /\ \A k \in 1..Len(lastPrior[1].previous) :
          lastState[1].previous[k] =
            IF lastPrior[1].previous[k].commitSha = lastCurrent[1].commitSha
            THEN lastCurrent[1] ELSE lastPrior[1].previous[k]

C6_Witness ==
  /\ lastPrior # Nil /\ lastCurrent # Nil /\ lastState # Nil
  /\ Len(lastPrior[1].previous) = 2
  /\ lastPrior[1].previous[2].commitSha = lastCurrent[1].commitSha
  /\ lastPrior[1].previous[2] # lastCurrent[1]
  /\ lastState[1].previous[2] = lastCurrent[1]
  /\ lastState[1].latest.commitSha # lastCurrent[1].commitSha

\* C7: an invocation that finds no comment of the action builds the state
\* {latest: the new entry, history: []} and creates a new comment, leaving
\* every existing comment as it was, instead of updating one.
C7_NoPriorComment ==
  [][(getActionComment(comments, Nil) = Nil /\ log' # log)
     => /\ lastState' = Some([latest |-> lastCurrent'[1], previous |-> <<>>])
        /\ Last(log').ops = <<"createComment">>
        /\ Len(comments') = Len(comments) + 1
        /\ SubSeq(comments', 1, Len(comments)) = comments
        /\ Last(comments').user = ThisUser
        /\ Len(EntryLines(Last(comments').body)) = 1]_vars

C7_Witness ==
  /\ Len(log) = 1 /\ ~log[1].found /\ log[1].ops = <<"createComment">>
  /\ Len(comments) = 2
  /\ comments[1].user = OtherUser
  /\ lastState = Some([latest |-> lastCurrent[1], previous |-> <<>>])

\* C8: from no prior state, after any sequence of reconcile calls, the keys of
\* the head and of the history rows are pairwise distinct.
C8_KeyUniqueness == lastState # Nil => DistinctKeys(lastState[1])

C8_Witness ==
  /\ lastPrior # Nil /\ lastCurrent # Nil /\ lastState # Nil
  /\ lastCurrent[1].commitSha \in Keys(lastPrior[1])
  /\ Len(Entries(lastState[1])) = NumShas
  /\ DistinctKeys(lastState[1])

C10_UnboundedRetention ==
  (lastState # Nil /\ lastCurrent # Nil)
  => /\ lastPrior # Nil => Keys(lastPrior[1]) \subseteq Keys(lastState[1])
     /\ Count(lastState) \in {Count(lastPrior), Count(lastPrior) + 1}
     /\ Len(EntryLines(details(lastState[1]))) = Count(lastState)
     /\ Len(EntryLines(previous(lastState[1].previous))) = Len(lastState[1].previous)

C10_Witness ==
  /\ lastPrior # Nil /\ lastState # Nil
  /\ Count(lastPrior) = NumShas - 1
  /\ Count(lastState) = NumShas
  /\ Len(EntryLines(details(lastState[1]))) = NumShas

\* C11: no phase ordering is enforced: whenever the prior state holds the
\* current key, at the head or in the history, whatever the statuses of the
\* old and the new entry, the result has the prior's rows with the current
\* entry at that key's position; the entry is never refused.
C11_NoPhaseOrdering ==
  (/\ lastPrior # Nil /\ lastCurrent # Nil
   /\ lastCurrent[1].commitSha \in Keys(lastPrior[1]))
  => /\ lastState # Nil
     /\ Len(Entries(lastState[1])) = Len(Entries(lastPrior[1]))
     /\ \A k \in 1..Len(Entries(lastPrior[1])) :
          Entries(lastState[1])[k] =
            IF Entries(lastPrior[1])[k].commitSha = lastCurrent[1].commitSha
            THEN lastCurrent[1] ELSE Entries(lastPrior[1])[k]

C11_Witness ==
  /\ lastPrior # Nil /\ lastCurrent # Nil /\ lastState # Nil
  /\ lastPrior[1].latest.commitSha = lastCurrent[1].commitSha
  /\ lastPrior[1].latest.status = StatusSuccess
  /\ lastCurrent[1].status = StatusInProgress
  /\ lastState[1].latest.status = StatusInProgress

----------------------------------------------------------------------------
(* Properties of the reader *)

BuildEmoji == {EmojiInProgress, EmojiSuccess, EmojiFailure}
BuildStatus == {StatusInProgress, StatusSuccess, StatusFailure}

\* The cells of a table row: what stands between its bars, blank or not.
ColumnCount(row) == Len(Split(Trim(row), "|")) - 2

\* The inline link grammar [text](url).
IsInlineLink(cell) ==
  /\ Len(cell) >= 4
  /\ Char(cell, 1) = "["
  /\ Char(cell, Len(cell)) = ")"
  /\ \E i \in 2..(Len(cell) - 2) : SubSeq(cell, i, i + 1) = "]("

DecodedEntries == Entries(docDecoded[1].value[1])

\* C12: a row whose cell count is not 7 makes getBuildState fail for the
\* whole body, wherever the row stands; no state is returned from the other
\* rows.
C12_WrongCellCount ==
  (/\ docDecoded # Nil
   /\ \E k \in 1..Len(doc.rows) : ColumnCount(doc.rows[k]) # 7)
  => docDecoded[1].threw

\* What the decoder does count: the cells that are not blank.
C12_NonBlankCellCount ==
  (/\ docDecoded # Nil
   /\ \E k \in 1..Len(doc.rows) : Len(RowCells(doc.rows[k])) # 7)
  => docDecoded[1].threw

\* C13: a 7-cell row whose first cell is none of the three glyphs, or whose
\* second cell is none of the three status texts, makes getBuildState fail;
\* the emoji and status of a decoded entry are members of BuildEmoji and
\* BuildStatus.
C13_UnknownGlyphOrStatus ==
  docDecoded # Nil =>
    /\ (\E k \in 1..Len(doc.rows) :
          /\ Len(RowCells(doc.rows[k])) = 7
          /\ \/ RowCells(doc.rows[k])[1] \notin BuildEmoji
             \/ RowCells(doc.rows[k])[2] \notin BuildStatus)
       => docDecoded[1].threw
    /\ ~docDecoded[1].threw =>
         \A k \in 1..Len(DecodedEntries) :
           /\ DecodedEntries[k].emoji \in BuildEmoji
           /\ DecodedEntries[k].status \in BuildStatus

\* C14: a row whose commit cell, run cell or deploy cell (unless it is the
\* placeholder) is no inline link makes getBuildState fail; no link of a
\* decoded entry is empty.
HasBrokenLink(row) ==
  Bind(RowCells(row), LAMBDA cells :
    /\ Len(cells) = 7
    /\ \/ ~IsInlineLink(cells[4])
       \/ ~IsInlineLink(cells[7])
       \/ cells[3] # NULL /\ ~IsInlineLink(cells[3]))

C14_BrokenLinkFails ==
  docDecoded # Nil =>
    /\ (\E k \in 1..Len(doc.rows) : HasBrokenLink(doc.rows[k])) => docDecoded[1].threw
    /\ ~docDecoded[1].threw =>
         \A k \in 1..Len(DecodedEntries) :
           /\ DecodedEntries[k].commitLink # ""
           /\ DecodedEntries[k].runLink # ""
           /\ DecodedEntries[k].deployUrl # Some("")

C14_Witness ==
  /\ docDecoded # Nil
  /\ Len(doc.rows) = 2
  /\ ~HasBrokenLink(doc.rows[1])
  /\ ColumnCount(doc.rows[2]) = 7
  /\ ~IsInlineLink(RowCells(doc.rows[2])[7])
  /\ docDecoded[1].threw

\* C15: a body without a data row (text only, or the header and separator
\* lines only) makes getBuildState fail; a state returned has a latest entry.
C15_NoRowsFails ==
  docDecoded # Nil =>
    /\ doc.rows = <<>> => docDecoded[1].threw
    /\ ~docDecoded[1].threw => docDecoded[1].value[1].latest # Nil

C15_Witness ==
  /\ docDecoded # Nil
  /\ doc.rows = <<>>
  /\ \E k \in 1..Len(SplitLines(doc.body)) : SplitLines(doc.body)[k] = HEADER_ROW
  /\ docDecoded[1].threw

\* C16: placeholder fidelity: an entry without deployUrl renders ~ in the
\* deploy cell and decodes to no deployUrl, never to an empty URL; likewise
\* buildDuration in the duration cell; and a deployUrl or buildDuration that
\* is present renders something else and decodes to itself, never to null.
PlaceholderKept(e, row, decodedEntry) ==
  /\ (e.deployUrl = Nil) <=> (RowCells(row)[3] = NULL)
  /\ (e.buildDuration = Nil) <=> (RowCells(row)[6] = NULL)
  /\ decodedEntry.deployUrl = e.deployUrl
  /\ decodedEntry.deployUrl # Some("")
  /\ decodedEntry.buildDuration = e.buildDuration

C16_PlaceholderFidelity ==
  (doc.origin # Nil /\ docDecoded # Nil)
  => /\ ~docDecoded[1].threw
     /\ Len(DecodedEntries) = Len(Entries(doc.origin[1]))
     /\ \A k \in 1..Len(Entries(doc.origin[1])) :
          PlaceholderKept(Entries(doc.origin[1])[k], doc.rows[k], DecodedEntries[k])

C16_Witness ==
  /\ doc.origin # Nil /\ docDecoded # Nil
  /\ ~docDecoded[1].threw
  /\ doc.origin[1].latest.deployUrl = Nil
  /\ doc.origin[1].latest.buildDuration = Nil
  /\ Len(doc.origin[1].previous) >= 1
  /\ doc.origin[1].previous[1].deployUrl # Nil
  /\ doc.origin[1].previous[1].buildDuration # Nil
  /\ DecodedEntries[1].deployUrl = Nil
  /\ DecodedEntries[2].buildDuration # Nil

\* C17: decoding a body rendered from a state with n history entries gives
\* n + 1 entries: only the entries' rows are selected (no header, separator,
\* narrative or "No previous builds found" line), the first row becomes
\* latest and the others become the history, in the order of the document.
Links(entries) == [k \in 1..Len(entries) |-> entries[k].commitLink]

C17_RowsInDocumentOrder ==
  (doc.origin # Nil /\ docDecoded # Nil)
  => /\ ~docDecoded[1].threw
     /\ EntryLines(doc.body) = doc.rows
     /\ Len(docDecoded[1].value[1].previous) = Len(doc.origin[1].previous)
     /\ docDecoded[1].value[1].latest.commitLink = doc.origin[1].latest.commitLink
     /\ Links(docDecoded[1].value[1].previous) = Links(doc.origin[1].previous)

C17_Witness ==
  /\ doc.origin # Nil /\ docDecoded # Nil
  /\ ~docDecoded[1].threw
  /\ Len(doc.origin[1].previous) = 2
  /\ Len(docDecoded[1].value[1].previous) = 2
  /\ Links(docDecoded[1].value[1].previous) = Links(doc.origin[1].previous)
  /\ Links(doc.origin[1].previous)[1] # Links(doc.origin[1].previous)[2]

\* C18: isStagingComment(body, tag) is true exactly for a body that, once
\* trimmed, starts with the marker of that tag: a body with another tag's
\* marker, a body with the tag-less marker read for a tag, and a body with a
\* tag's marker read without a tag are all rejected.
C18_SentinelScoping ==
  docStaging # Nil =>
    (docStaging[1] <=> (doc.sentinel = docTag /\ Trim(doc.lead) = ""))

C18_Witness ==
  /\ docStaging = Some(FALSE)
  /\ doc.sentinel = Some("job2")
  /\ docTag = Some("job")
  /\ doc.lead = ""

----------------------------------------------------------------------------
(* Properties of tagged invocations *)

\* Comment c is the action user's and begins, once trimmed, with t's marker.
Carries(c, t) == c.user = ThisUser /\ StartsWith(Trim(c.body), COMMENT_TAG(t))

Marked(cs, t) == {k \in 1..Len(cs) : Carries(cs[k], t)}

\* C19: an invocation given the tag T leaves a comment that begins with T's
\* marker; and after two invocations given different tags on a pull request
\* without comments, each tag has its own comment: the second invocation
\* did not find and overwrite the first one's.
C19_TagScoping ==
  /\ (Len(log) >= 1 /\ Last(log).tag # Nil /\ ~Last(log).threw)
       => Marked(comments, Last(log).tag) # {}
  /\ (/\ Len(log) = 2 /\ ~log[1].found /\ ~log[1].threw /\ ~log[2].threw
      /\ log[1].tag # Nil /\ log[2].tag # Nil /\ log[1].tag # log[2].tag)
       => /\ ~log[2].found
          /\ Marked(comments, log[1].tag) # {}
          /\ Marked(comments, log[2].tag) # {}
          /\ Marked(comments, log[1].tag) \cap Marked(comments, log[2].tag) = {}

\* C20: an invocation given the tag T (or none) on a pull request whose only
\* ledger comment carries the marker of another tag finds no comment and
\* does not fail: the state is the new entry alone, a new comment is created
\* and the other tag's comment stays as it was.
OnlyAnotherTag(cs, t) ==
  /\ \E other \in TagInputs \ {Nil, t} : Marked(cs, other) # {}
  /\ Marked(cs, t) = {}
  /\ Marked(cs, Nil) = {}

----------------------------------------------------------------------------
(* Properties of an invocation's reads, writes and failures *)

\* The positions of the comments the handlers' lookup accepts: written by the
\* action's user and beginning with the marker of the tag the action
\* context carries (which is always absent).
Selected(cs) ==
  {k \in 1..Len(cs) : cs[k].user = ThisUser /\ isStagingComment(cs[k].body, Nil)}

\* C21: when the body of the ledger comment an invocation finds does not
\* decode (a malformed row, or no rows), the invocation ends in failure,
\* calls neither createComment nor updateComment, builds no state and
\* leaves every comment of the pull request as it was.
C21_DecodeFailureAborts ==
  [][(/\ log' # log
      /\ Selected(comments) # {}
      /\ getBuildState(comments[MinOf(Selected(comments))].body).threw)
     => /\ Last(log').threw
        /\ Last(log').found
        /\ Last(log').ops = <<>>
        /\ lastState' = Nil
        /\ comments' = comments]_vars

C21_Witness ==
  /\ Len(log) = 2
  /\ log[1].threw /\ log[1].found /\ log[1].ops = <<>>
  /\ log[2].threw /\ log[2].mode = "post"
  /\ comments \in DamagedComments
  /\ lastState = Nil

\* C22: a post invocation whose request to the commit's deploy URL fails
\* reconciles and writes a second time, and the commit's row then has the
\* status Success and no deploy URL; one whose request succeeds writes once.
C22_VerificationFailureClearsDeployUrl ==
  (Len(log) >= 1 /\ Last(log).mode = "post" /\ ~Last(log).threw)
    => IF Last(log).requestFailed
       THEN /\ Len(Last(log).ops) = 2
            /\ lastCurrent[1].deployUrl = Nil
            /\ lastState[1].latest.status = StatusSuccess
            /\ lastState[1].latest.deployUrl = Nil
       ELSE Len(Last(log).ops) = 1

----------------------------------------------------------------------------
(* Properties of the entries the handlers build *)

\* C25: the entry pre builds has the status In progress, no duration and a
\* deploy URL; the entry failure builds has the status Failure, no deploy
\* URL and no duration; the entry post builds has the status Success, a
\* deploy URL, and a duration exactly when the build-duration input is not
\* blank.
C25_EventPayloads ==
  lastCurrent # Nil =>
    \E e \in {lastCurrent[1]} :
      /\ log[1].mode = "pre" =>
            e.status = StatusInProgress /\ e.buildDuration = Nil /\ e.deployUrl # Nil
      /\ log[1].mode = "failure" =>
            e.status = StatusFailure /\ e.buildDuration = Nil /\ e.deployUrl = Nil
      /\ log[1].mode = "post" =>
            /\ e.status = StatusSuccess
            /\ e.deployUrl # Nil
            /\ e.buildDuration # Nil <=> log[1].buildDuration \notin {"", "  "}

C25_Witness ==
  /\ lastCurrent # Nil
  /\ log[1].mode = "post"
  /\ log[1].buildDuration = " 62 "
  /\ lastCurrent[1].status = StatusSuccess
  /\ lastCurrent[1].buildDuration = Some("1m 2s")
  /\ lastCurrent[1].deployUrl = Some("https://stg/commit/c0ffee1/")

\* C27: the duration post renders for a build of n seconds is "<m>m <s>s"
\* with 60 * m + s = n and 0 <= s < 60; 62 seconds render as "1m 2s".
C27_DurationArithmetic ==
  (lastCurrent # Nil /\ log[1].mode = "post") =>
    /\ \A n \in 0..MaxSeconds :
         log[1].buildDuration = Dec(n) =>
           \E m \in 0..n, s \in 0..59 :
             /\ 60 * m + s = n
             /\ lastCurrent[1].buildDuration = Some(Dec(m) \o "m " \o Dec(s) \o "s")
    /\ log[1].buildDuration = "62" => lastCurrent[1].buildDuration = Some("1m 2s")

C27_Witness ==
  /\ lastCurrent # Nil
  /\ log[1].mode = "post"
  /\ log[1].buildDuration = "125"
  /\ lastCurrent[1].buildDuration = Some("2m 5s")

\* The glyph of entry e is the one of its status.
Agree(e) ==
  \/ e.emoji = EmojiInProgress /\ e.status = StatusInProgress
  \/ e.emoji = EmojiSuccess /\ e.status = StatusSuccess
  \/ e.emoji = EmojiFailure /\ e.status = StatusFailure

\* C26: on a pull request that began without a ledger comment, after any
\* sequence of pre, post and failure invocations, every entry of the state
\* an invocation decoded from the comment and of the state it wrote, latest
\* and history alike, has the glyph of its status.
C26_GlyphAgreesWithStatus ==
  \A held \in {lastPrior, lastState} :
    held # Nil => \A k \in 1..Len(Entries(held[1])) : Agree(Entries(held[1])[k])

C26_Witness ==
  /\ Len(log) = 3
  /\ lastPrior # Nil
  /\ lastState # Nil
  /\ {Entries(lastState[1])[k].status : k \in 1..Len(Entries(lastState[1]))}
       = {StatusInProgress, StatusSuccess, StatusFailure}

----------------------------------------------------------------------------
(* Properties of a sequence of reconcile calls *)

----------------------------------------------------------------------------
(* Properties of invocations that overlap *)

\* The ledger comment of pull request p, as the next lookup would find it.
LedgerOf(p) == store[p][MinOf(Selected(store[p]))]

\* The entry invocation i reports.
Reported(i) == CurrentEntry(flights[i].mode, RaceContext(i, flights[i].pr))

\* C23: when invocation j read the ledger comment of a pull request before
\* invocation i wrote it, and wrote it after i did, as the last writer, the
\* comment is what j rendered from what it read: its first row is the entry
\* j reported and no row is the entry i reported.
C23_LostUpdate ==
  \A i, j \in Flights :
    (/\ i # j
     /\ flights[i].pc = "done" /\ flights[j].pc = "done"
     /\ flights[i].pr = flights[j].pr
     /\ flights[i].op = "updateComment" /\ flights[j].op = "updateComment"
     /\ flights[j].readVer < flights[i].wroteVer
     /\ flights[i].wroteVer < flights[j].wroteVer
     /\ flights[j].wroteVer = Version(flights[j].pr))
    => \E rows \in {EntryLines(LedgerOf(flights[j].pr).body)} :
         /\ rows[1] = entry(Reported(j))
         /\ \A k \in 1..Len(rows) : rows[k] # entry(Reported(i))

\* Both invocations read the ledger of the earlier build, the first wrote,
\* the second wrote: the ledger holds two rows, neither the first one's.
C23_Witness ==
  /\ flights[1].pc = "done" /\ flights[2].pc = "done"
  /\ flights[1].pr = PrId /\ flights[2].pr = PrId
  /\ flights[1].readVer = 0 /\ flights[2].readVer = 0
  /\ flights[1].wroteVer = 1 /\ flights[2].wroteVer = 2
  /\ \E rows \in {EntryLines(LedgerOf(PrId).body)} :
       /\ Len(rows) = 2
       /\ rows[1] = entry(Reported(2))
       /\ \A k \in 1..Len(rows) : rows[k] # entry(Reported(1))

\* The invocation that made the v-th write to pull request p.
Writer(p, v) ==
  CHOOSE i \in Flights :
    flights[i].pc = "done" /\ flights[i].pr = p /\ flights[i].wroteVer = v

\* The comments of pull request p after its first v writes, were its own
\* invocations, reading and writing in the order they did, the only ones.
RECURSIVE StoreAlone(_, _)
StoreAlone(p, v) ==
  IF v = 0 THEN RaceStore[p]
  ELSE Bind(Writer(p, v), LAMBDA w :
         Bind(RaceContext(w, p), LAMBDA ctx :
           Bind(getActionComment(StoreAlone(p, flights[w].readVer), ctx.tag), LAMBDA seen :
             patchComment(Render(TemplateOf(flights[w].mode),
                                 [prId |-> Dec(ctx.prId), url |-> ctx.stagingUrl, tag |-> Nil,
                                  state |-> updateState(Reported(w), seen, ctx).value[1]]),
                          seen, StoreAlone(p, v - 1)).comments)))

\* Who wrote each comment and what it says; the id is the store's.
Bodies(cs) == [k \in 1..Len(cs) |-> [user |-> cs[k].user, body |-> cs[k].body]]

\* C24: whatever the invocations on other pull requests did and whenever,
\* the comments of each pull request are those its own invocations alone
\* would have left, reading and writing in the same order.
C24_PullRequestsIndependent ==
  \A p \in PRs : Bodies(store[p]) = Bodies(StoreAlone(p, Version(p)))

C24_Witness ==
  /\ flights[1].pc = "done" /\ flights[1].pr = PrId
  /\ flights[2].pc = "done" /\ flights[2].pr = OtherPrId
  /\ flights[1].op = "updateComment" /\ flights[2].op = "createComment"
  /\ Len(store[PrId]) = 1 /\ Len(store[OtherPrId]) = 1
  /\ Len(EntryLines(LedgerOf(PrId).body)) = 2
  /\ EntryLines(LedgerOf(OtherPrId).body) = <<entry(Reported(2))>>

\* C30: every pull request holds at most one ledger comment of the action's
\* user, however the invocations on it overlap.
C30_SingleLedgerComment ==
  \A p \in PRs : Cardinality(Selected(store[p])) <= 1

----------------------------------------------------------------------------
(* Properties of the comments the templates write *)

\* C31: a body that building, successful or failed rendered for a state and
\* a tag (or none) is accepted by isStagingComment for that tag and for no
\* other, the body of failed, which begins with a line break, included.
C31_WrittenCommentRecognised ==
  (doc.origin # Nil /\ docStaging # Nil) => (docStaging[1] <=> doc.sentinel = docTag)

\* A failure comment for the tag job, beginning with a line break, is accepted.
C31_Witness ==
  /\ doc.origin # Nil
  /\ Char(doc.body, 1) = "\n"
  /\ doc.sentinel = Some("job")
  /\ docTag = Some("job")
  /\ docStaging = Some(TRUE)

----------------------------------------------------------------------------
(* Properties of the writes of an invocation *)

\* C32: an invocation that does not fail writes through patchComment, which
\* makes one call: updateComment on the comment found, every other comment
\* and the number of comments staying as they were, or, when none was
\* found, createComment, which adds one comment after the others.  A pre or
\* failure invocation makes at most one write, a post invocation at most
\* two, and an invocation that fails before its write makes none.
C32_ExactlyOneWrite ==
  [][log' # log
     => \E r \in {Last(log')} :
          /\ Len(r.ops) <= (IF r.mode = "post" THEN 2 ELSE 1)
          /\ r.threw => r.ops = <<>> /\ comments' = comments
          /\ ~r.threw =>
                IF Selected(comments) # {}
                THEN /\ r.ops # <<>>
                     /\ \A k \in 1..Len(r.ops) : r.ops[k] = "updateComment"
                     /\ Len(comments') = Len(comments)
                     /\ \A k \in 1..Len(comments) :
                          /\ comments'[k].id = comments[k].id
                          /\ k # MinOf(Selected(comments)) => comments'[k] = comments[k]
                ELSE /\ r.ops[1] = "createComment"
                     /\ \A k \in 2..Len(r.ops) : r.ops[k] = "updateComment"
                     /\ Len(comments') = Len(comments) + 1
                     /\ SubSeq(comments', 1, Len(comments)) = comments]_vars

\* A first invocation created the comment, a second one updated it.
C32_Witness ==
  /\ Len(log) = 2
  /\ log[1].ops = <<"createComment">>
  /\ log[2].ops = <<"updateComment">>
  /\ log[2].mode = "post"
  /\ Len(comments) = 1

----------------------------------------------------------------------------
(* Properties of a workflow step *)

Range(seq) == {seq[k] : k \in 1..Len(seq)}

\* The requests that read or write the pull request's comments.
CommentCalls == {"listComments", "createComment", "updateComment"}

\* C33: on an event that is not pull_request, whatever the mode, neither
\* hook lists, creates or updates a comment and the main hook does not save
\* stagingSuccess; a run() that does not throw has sent the job lookup
\* only and has set its outputs.
C33_NotAPullRequest ==
  [][step.event # "pull_request"
     => /\ comments' = comments
        /\ Range(step'.calls) \cap CommentCalls = {}
        /\ Range(step'.cleanupCalls) \cap CommentCalls = {}
        /\ ~step'.stagingSuccess
        /\ (step.pc = "main" /\ step.mode \in Modes /\ ~step'.failed)
             => step'.outputs /\ step'.calls = <<"listJobsForWorkflowRun">>]_vars

C33_Witness ==
  /\ step.pc = "done"
  /\ step.event = "push"
  /\ step.mode = "post"
  /\ step.outputs /\ ~step.failed /\ ~step.stagingSuccess
  /\ step.ranFailure /\ ~step.cleanupFailed
  /\ step.cleanupCalls = <<"listJobsForWorkflowRun">>
  /\ comments = <<>>

\* C34: on a pull request whose head is another repository, or whose head
\* branch has no commits, the main hook of a step with a mode of the action
\* ends as failed, and neither hook lists, creates or updates a comment:
\* the comments stay as they were.
C34_UntrustedOrEmptyHead ==
  [][(step.event = "pull_request" /\ (step.head # "own" \/ step.commits = 0))
     => /\ comments' = comments
        /\ Range(step'.calls) \cap CommentCalls = {}
        /\ Range(step'.cleanupCalls) \cap CommentCalls = {}
        /\ (step.pc = "main" /\ step.mode \in Modes) => step'.failed
        /\ (step.pc = "cleanup" /\ step'.ranFailure) => step'.cleanupFailed]_vars

C34_Witness ==
  /\ step.pc = "done"
  /\ step.event = "pull_request"
  /\ step.head = "fork"
  /\ step.mode = "pre"
  /\ step.failed
  /\ step.calls = <<"listJobsForWorkflowRun", "pulls.get">>
  /\ comments \in DamagedComments

\* C35: the cleanup hook calls run("failure") exactly when the mode input is
\* post and the main hook saved no stagingSuccess.  A main hook in mode post
\* that came to list the comments had saved it, so that the cleanup hook
\* after it sends no request and changes no comment, also when post threw.
C35_CleanupAfterPost ==
  [][step.pc = "cleanup"
     => /\ step'.ranFailure <=> (step.mode = "post" /\ ~step.stagingSuccess)
        /\ (step.mode = "post" /\ "listComments" \in Range(step.calls))
             => /\ step.stagingSuccess
                /\ ~step'.ranFailure
                /\ step'.cleanupCalls = <<>>
                /\ comments' = comments]_vars

\* The post of the main hook threw on a damaged comment; cleanup did nothing.
C35_Witness ==
  /\ step.pc = "done"
  /\ step.mode = "post"
  /\ step.failed
  /\ step.stagingSuccess
  /\ "listComments" \in Range(step.calls)
  /\ ~step.ranFailure
  /\ comments \in DamagedComments

\* C36: for a mode input that is none of pre, post and failure the main
\* hook sends no request, changes no comment, saves nothing and does not
\* mark the step failed; for one of the three it calls run(), and an error
\* run() throws marks the step failed and ends the hook.
C36_BootstrapModes ==
  [][step.pc = "main"
     => /\ step'.pc = "cleanup"
        /\ step.mode \notin Modes
             => /\ step'.calls = <<>>
                /\ comments' = comments
                /\ ~step'.failed
                /\ ~step'.stagingSuccess
        /\ (step.mode \in Modes /\ step.runId) => step'.calls # <<>>
        /\ (step.mode \in Modes /\ ~step.runId) => step'.failed]_vars

C36_Witness ==
  /\ step.pc = "cleanup"
  /\ step.mode = "build"
  /\ step.event = "pull_request" /\ step.head = "own" /\ step.commits = 1 /\ step.runId
  /\ step.calls = <<>>
  /\ ~step.failed
  /\ comments = <<>>

----------------------------------------------------------------------------
(* Properties of invocations on a shared pull request *)

\* C37: an invocation changes no comment of another user, with or without
\* the marker.  When the action's user has ledger comments, the first of
\* them in list order is the one decoded and the only comment that may
\* change; when it has none, nothing is decoded and a comment of the
\* action's user is added after the others.
C37_OwnFirstLedgerOnly ==
  [][log' # log
     => /\ \A k \in 1..Len(comments) :
             comments[k].user # ThisUser => comments'[k] = comments[k]
        /\ IF Marked(comments, Nil) = {}
           THEN /\ ~Last(log').found
                /\ lastPrior' = Nil
                /\ Len(comments') = Len(comments) + 1
                /\ SubSeq(comments', 1, Len(comments)) = comments
                /\ comments'[Len(comments')].user = ThisUser
           ELSE \E first \in {MinOf(Marked(comments, Nil))} :
                  /\ Last(log').found
                  /\ lastPrior' = getBuildState(comments[first].body).value
                  /\ Len(comments') = Len(comments)
                  /\ \A k \in 1..Len(comments) : k # first => comments'[k] = comments[k]
                  /\ comments'[first].body # comments[first].body]_vars

\* Another user's ledger comes first and is as it was, the first ledger of
\* the action's user has a new row, the second one is as it was.
C37_Witness ==
  /\ Len(log) = 1
  /\ log[1].found
  /\ comments[1] = LedgerComment(1, OtherUser, 8)
  /\ comments[3] = LedgerComment(3, ThisUser, 7)
  /\ comments[2].id = 2
  /\ Len(EntryLines(comments[2].body)) = 2

====
